---- MODULE Spec2Model ----
(***************************************************************************)
(* extra_script.py: the PlatformIO pre-build hook of soundmesh.  It reads  *)
(* the active environment name, picks the variant's main source file and   *)
(* status message, prints the message and rewrites src/CMakeLists.txt.     *)
(*                                                                         *)
(* Text that the script concatenates, formats or writes is modelled as a   *)
(* sequence of one-character strings, so that formatting, truncation,      *)
(* partial writes and textual comparison are computed rather than assumed. *)
(* Status messages are only ever compared and printed whole and are kept   *)
(* as strings.                                                             *)
(***************************************************************************)
EXTENDS Integers, Sequences, FiniteSets, TLC

VARIABLES
    pc,             \* position of the script within the current build
    pio_env,        \* pio_env          (line 4)
    app_sources,    \* app_sources      (lines 8, 11, 14)
    message,        \* message          (lines 9, 12, 15)
    cmake_content,  \* cmake_content    (lines 20-22)
    file,           \* src/CMakeLists.txt on disk: [exists, data]
    log,            \* lines printed to the build log by the current build
    raised,         \* the exception propagating out of the script, if any
    prev            \* the immediately preceding build, when it completed

vars == <<pc, pio_env, app_sources, message, cmake_content, file, log, raised, prev>>

-----------------------------------------------------------------------------
(* Bounds of the model *)

\* Environment names of up to this many characters over Alphabet are all tried.
MaxIdLen == 2

Alphabet == {"t", "x", "T", " "}

\* Further environment names: the second key, case variants, prefixed and
\* suffixed keys, the receiver's own name, and an unrelated name.
ExtraIds ==
    { <<"c", "o", "m", "b", "o">>,
      <<"T", "X">>,
      <<"T", "x">>,
      <<"t", "x", " ">>,
      <<" ", "t", "x">>,
      <<"t", "x", "2">>,
      <<"x", "t", "x">>,
      <<"C", "o", "m", "b", "o">>,
      <<"C", "O", "M", "B", "O">>,
      <<"c", "o", "m", "b", "o", " ">>,
      <<"c", "o", "m", "b", "o", "2">>,
      <<"r", "x">>,
      <<"a", "n", "y", "t", "h", "i", "n", "g", "-", "e", "l", "s", "e">> }

Ids == UNION { [1..n -> Alphabet] : n \in 0..MaxIdLen } \cup ExtraIds

-----------------------------------------------------------------------------
(* Literals of the script *)

KEY_TX == <<"t", "x">>
KEY_COMBO == <<"c", "o", "m", "b", "o">>

TX_MAIN == <<"t", "x", "/", "m", "a", "i", "n", ".", "c">>
COMBO_MAIN == <<"c", "o", "m", "b", "o", "/", "m", "a", "i", "n", ".", "c">>
RX_MAIN == <<"r", "x", "/", "m", "a", "i", "n", ".", "c">>

TX_MESSAGE == "Building TX firmware"
COMBO_MESSAGE == "Building COMBO firmware"
RX_MESSAGE == "Building RX firmware"

NL == "\n"
DIRECTIVE_NAME ==
    <<"i", "d", "f", "_", "c", "o", "m", "p", "o", "n", "e", "n", "t", "_",
      "r", "e", "g", "i", "s", "t", "e", "r">>
SRCS_OPEN == <<"(", "S", "R", "C", "S", " ", "\"">>
SRCS_CLOSE == <<"\"", ")">>

-----------------------------------------------------------------------------
(* The file system and the build before the hook runs *)

Absent == [exists |-> FALSE, data |-> <<>>]
Stored(text) == [exists |-> TRUE, data |-> text]

\* A manifest somebody wrote by hand before the hook was introduced.
StaleManifest ==
    DIRECTIVE_NAME \o SRCS_OPEN \o <<"m", "a", "i", "n", ".", "c">> \o SRCS_CLOSE

InitialFiles == { Absent, Stored(<<>>), Stored(StaleManifest) }

NoRun == [completed |-> FALSE, env |-> <<>>, data |-> <<>>, log |-> <<>>]

Init ==
    /\ pc = "start"
    /\ pio_env = <<>>
    /\ app_sources = <<>>
    /\ message = ""
    /\ cmake_content = <<>>
    /\ file \in InitialFiles
    /\ log = <<>>
    /\ raised = "none"
    /\ prev = NoRun

-----------------------------------------------------------------------------
(* The script, statement by statement *)

\* The order of the statements of the script: the statement run after `stmt`
\* when `stmt` raises nothing.
FollowingPrintLast(stmt) ==
    CASE stmt = "start" -> "dispatch"
      [] stmt = "dispatch" -> "format"
      [] stmt = "format" -> "open"
      [] stmt = "open" -> "write"
      [] stmt = "write" -> "print"
      [] stmt = "print" -> "done"

Following(stmt) ==
    CASE stmt = "start" -> "dispatch"
      [] stmt = "dispatch" -> "print"
      [] stmt = "print" -> "format"
      [] stmt = "format" -> "open"
      [] stmt = "open" -> "write"
      [] stmt = "write" -> "done"

\* pio_env = env["PIOENV"]
ReadEnv ==
    /\ pc = "start"
    /\ \E e \in Ids : pio_env' = e
    /\ pc' = Following("start")
    /\ UNCHANGED <<app_sources, message, cmake_content, file, log, raised, prev>>

\* Variants of the dispatch that a slip in the if/elif/else chain would give:
\* the two-way chain without the combo branch,
ResolveTwoWay(e) ==
    IF e = KEY_TX
    THEN [app_sources |-> TX_MAIN, message |-> TX_MESSAGE]
    ELSE [app_sources |-> RX_MAIN, message |-> RX_MESSAGE]

\* a chain without the else branch, the variables keeping their empty defaults,
ResolveNoDefault(e) ==
    IF e = KEY_TX
    THEN [app_sources |-> TX_MAIN, message |-> TX_MESSAGE]
    ELSE IF e = KEY_COMBO
         THEN [app_sources |-> COMBO_MAIN, message |-> COMBO_MESSAGE]
         ELSE [app_sources |-> <<>>, message |-> ""]

\* a combo branch pasted from the tx branch with the message left unedited,
ResolvePastedMessage(e) ==
    IF e = KEY_TX
    THEN [app_sources |-> TX_MAIN, message |-> TX_MESSAGE]
    ELSE IF e = KEY_COMBO
         THEN [app_sources |-> COMBO_MAIN, message |-> TX_MESSAGE]
         ELSE [app_sources |-> RX_MAIN, message |-> RX_MESSAGE]

\* and a chain testing pio_env.startswith(key) instead of equality.
StartsWith(text, prefix) ==
    /\ Len(prefix) <= Len(text)
    /\ SubSeq(text, 1, Len(prefix)) = prefix

ResolveStartsWith(e) ==
    IF StartsWith(e, KEY_TX)
    THEN [app_sources |-> TX_MAIN, message |-> TX_MESSAGE]
    ELSE IF StartsWith(e, KEY_COMBO)
         THEN [app_sources |-> COMBO_MAIN, message |-> COMBO_MESSAGE]
         ELSE [app_sources |-> RX_MAIN, message |-> RX_MESSAGE]

\* if pio_env == "tx": ... elif pio_env == "combo": ... else: ...
Resolve(e) ==
    IF e = KEY_TX
    THEN [app_sources |-> TX_MAIN, message |-> TX_MESSAGE]
    ELSE IF e = KEY_COMBO
         THEN [app_sources |-> COMBO_MAIN, message |-> COMBO_MESSAGE]
         ELSE [app_sources |-> RX_MAIN, message |-> RX_MESSAGE]

Dispatch ==
    /\ pc = "dispatch"
    /\ app_sources' = Resolve(pio_env).app_sources
    /\ message' = Resolve(pio_env).message
    /\ pc' = Following("dispatch")
    /\ UNCHANGED <<pio_env, cmake_content, file, log, raised, prev>>

\* print(message)
PrintMessage ==
    /\ pc = "print"
    /\ log' = Append(log, message)
    /\ pc' = Following("print")
    /\ UNCHANGED <<pio_env, app_sources, message, cmake_content, file, raised, prev>>

\* The template written as a plain string, the f prefix forgotten,
FormatNotInterpolated(src) ==
    <<NL>> \o DIRECTIVE_NAME \o SRCS_OPEN
         \o <<"{", "a", "p", "p", "_", "s", "o", "u", "r", "c", "e", "s", "}">>
         \o SRCS_CLOSE \o <<NL>>

\* and the template written on one line, without its leading blank line.
FormatNoLeadingNewline(src) ==
    DIRECTIVE_NAME \o SRCS_OPEN \o src \o SRCS_CLOSE \o <<NL>>

\* f"""\nidf_component_register(SRCS "{app_sources}")\n"""
Format(src) ==
    <<NL>> \o DIRECTIVE_NAME \o SRCS_OPEN \o src \o SRCS_CLOSE \o <<NL>>

FormatContent ==
    /\ pc = "format"
    /\ cmake_content' = Format(app_sources)
    /\ pc' = Following("format")
    /\ UNCHANGED <<pio_env, app_sources, message, file, log, raised, prev>>

\* A try/except around the with statement that passes on OSError.
SwallowOSError(resume) == resume

\* An OSError raised inside the with statement is caught nowhere: it leaves
\* the script instead of resuming at the statement after the with block.
OnOSError(resume) == "failed"

\* open("src/CMakeLists.txt", "a"): creates the file or keeps what it holds.
OpenForAppending(f) == Stored(f.data)

\* open("src/CMakeLists.txt", "w"): creates the file or truncates it.
OpenForWriting(f) == Stored(<<>>)

OpenFile ==
    /\ pc = "open"
    /\ file' = OpenForWriting(file)
    /\ pc' = Following("open")
    /\ UNCHANGED <<pio_env, app_sources, message, cmake_content, log, raised, prev>>

OpenFileFails ==
    /\ pc = "open"
    /\ raised' = "OSError"
    /\ pc' = OnOSError(Following("write"))
    /\ UNCHANGED <<pio_env, app_sources, message, cmake_content, file, log, prev>>

\* f.write(cmake_content), flushed when the with block closes the file.
WriteFile ==
    /\ pc = "write"
    /\ file' = Stored(file.data \o cmake_content)
    /\ pc' = Following("write")
    /\ UNCHANGED <<pio_env, app_sources, message, cmake_content, log, raised, prev>>

\* The write or the flush fails after k characters reached the disk.
WriteFileFails ==
    /\ pc = "write"
    /\ \E k \in 0..(Len(cmake_content) - 1) :
          file' = Stored(file.data \o SubSeq(cmake_content, 1, k))
    /\ raised' = "OSError"
    /\ pc' = OnOSError(Following("write"))
    /\ UNCHANGED <<pio_env, app_sources, message, cmake_content, log, prev>>

\* The next build loads the script afresh; only the file system persists.
NewBuild ==
    /\ pc \in {"done", "failed"}
    /\ prev' = IF pc = "done"
               THEN [completed |-> TRUE, env |-> pio_env, data |-> file.data, log |-> log]
               ELSE NoRun
    /\ pc' = "start"
    /\ pio_env' = <<>>
    /\ app_sources' = <<>>
    /\ message' = ""
    /\ cmake_content' = <<>>
    /\ log' = <<>>
    /\ raised' = "none"
    /\ UNCHANGED file

Next ==
    \/ ReadEnv
    \/ Dispatch
    \/ PrintMessage
    \/ FormatContent
    \/ OpenFile
    \/ OpenFileFails
    \/ WriteFile
    \/ WriteFileFails
    \/ NewBuild

Spec == Init /\ [][Next]_vars

-----------------------------------------------------------------------------
(* Vocabulary of the properties *)

\* The dispatch of the current build has run.
Resolved == pc \in {"print", "format", "open", "write", "done", "failed"}

\* The template of the current build has been formatted.
Formatted == pc \in {"open", "write", "done", "failed"}

Keys == {KEY_TX, KEY_COMBO}

\* The three manifests, character by character.
\* '\nidf_component_register(SRCS "tx/main.c")\n'
TxManifest ==
    <<"\n", "i", "d", "f", "_", "c", "o", "m", "p", "o", "n", "e", "n",
      "t", "_", "r", "e", "g", "i", "s", "t", "e", "r", "(", "S", "R",
      "C", "S", " ", "\"", "t", "x", "/", "m", "a", "i", "n", ".", "c",
      "\"", ")", "\n">>
\* '\nidf_component_register(SRCS "combo/main.c")\n'
ComboManifest ==
    <<"\n", "i", "d", "f", "_", "c", "o", "m", "p", "o", "n", "e", "n",
      "t", "_", "r", "e", "g", "i", "s", "t", "e", "r", "(", "S", "R",
      "C", "S", " ", "\"", "c", "o", "m", "b", "o", "/", "m", "a", "i",
      "n", ".", "c", "\"", ")", "\n">>
\* '\nidf_component_register(SRCS "rx/main.c")\n'
RxManifest ==
    <<"\n", "i", "d", "f", "_", "c", "o", "m", "p", "o", "n", "e", "n",
      "t", "_", "r", "e", "g", "i", "s", "t", "e", "r", "(", "S", "R",
      "C", "S", " ", "\"", "r", "x", "/", "m", "a", "i", "n", ".", "c",
      "\"", ")", "\n">>

\* The manifest an environment name calls for, by the variant table alone.
ManifestFor(e) ==
    IF e = <<"t", "x">> THEN TxManifest
    ELSE IF e = <<"c", "o", "m", "b", "o">> THEN ComboManifest
    ELSE RxManifest

\* Where `pattern` occurs in `text`.
Occurrences(pattern, text) ==
    { i \in 1..(Len(text) - Len(pattern) + 1) :
        SubSeq(text, i, i + Len(pattern) - 1) = pattern }

Contains(text, pattern) == Occurrences(pattern, text) # {}

\* The quoted arguments of a manifest: the quotation marks pair up in order,
\* an odd-numbered mark opening an argument that the next mark closes.
Quotes(text) == { i \in 1..Len(text) : text[i] = "\"" }

Opening(text) ==
    { i \in Quotes(text) :
        /\ Cardinality({ j \in Quotes(text) : j <= i }) % 2 = 1
        /\ \E j \in Quotes(text) : j > i }

Closing(text, i) == CHOOSE j \in Quotes(text) :
    j > i /\ \A k \in Quotes(text) : k > i => j <= k

RegisteredSources(text) ==
    { SubSeq(text, i + 1, Closing(text, i) - 1) : i \in Opening(text) }

\* Letter case and surrounding blanks.
Lower(c) ==
    CASE c = "T" -> "t" [] c = "X" -> "x" [] c = "C" -> "c" [] c = "O" -> "o"
      [] c = "M" -> "m" [] c = "B" -> "b" [] c = "R" -> "r" [] OTHER -> c

LowerText(text) == [i \in 1..Len(text) |-> Lower(text[i])]

RECURSIVE Strip(_)
Strip(text) ==
    IF text = <<>> THEN text
    ELSE IF Head(text) = " " THEN Strip(Tail(text))
    ELSE IF text[Len(text)] = " " THEN Strip(SubSeq(text, 1, Len(text) - 1))
    ELSE text

EndsWith(text, suffix) ==
    /\ Len(suffix) <= Len(text)
    /\ SubSeq(text, Len(text) - Len(suffix) + 1, Len(text)) = suffix

\* An environment name that is no key but differs from one only by letter
\* case, surrounding blanks, or an added prefix or suffix; or the receiver's
\* own name.
NearMiss(e) ==
    /\ e \notin Keys
    /\ \/ \E k \in Keys :
            \/ LowerText(e) = k
            \/ Strip(e) = k
            \/ StartsWith(e, k)
            \/ EndsWith(e, k)
       \/ e = <<"r", "x">>

-----------------------------------------------------------------------------
(* Properties *)

\* C1: every key of the variant table resolves to its configured pair: "tx"
\* to ("tx/main.c", "Building TX firmware") and "combo" to ("combo/main.c",
\* "Building COMBO firmware"); a completed build has logged that message and
\* its manifest holds the directive for that path.
C1_RecognizedResolveToConfiguredPair ==
    /\ (Resolved /\ pio_env = <<"t", "x">>) =>
          /\ app_sources = <<"t", "x", "/", "m", "a", "i", "n", ".", "c">>
          /\ message = "Building TX firmware"
    /\ (Resolved /\ pio_env = <<"c", "o", "m", "b", "o">>) =>
          /\ app_sources = <<"c", "o", "m", "b", "o", "/", "m", "a", "i", "n", ".", "c">>
          /\ message = "Building COMBO firmware"
    /\ (pc = "done" /\ pio_env = <<"t", "x">>) =>
          /\ log = <<"Building TX firmware">>
          /\ Contains(file.data, SubSeq(TxManifest, 2, Len(TxManifest) - 1))
    /\ (pc = "done" /\ pio_env = <<"c", "o", "m", "b", "o">>) =>
          /\ log = <<"Building COMBO firmware">>
          /\ Contains(file.data, SubSeq(ComboManifest, 2, Len(ComboManifest) - 1))

C1_Witness ==
    /\ pc = "done"
    /\ pio_env = <<"c", "o", "m", "b", "o">>
    /\ message = "Building COMBO firmware"
    /\ file.data = ComboManifest

\* C2: resolution is total and signals no error: at the dispatch a variant
\* is always produced, every name that is no key resolves to ("rx/main.c",
\* "Building RX firmware"), an exception can only come from the file
\* operations after the message was printed, and a completed build with
\* such a name has written the receiver manifest.
C2_UnrecognizedResolveToReceiver ==
    /\ pc = "dispatch" => ENABLED Dispatch
    /\ pc \in {"start", "dispatch", "print", "format"} => raised = "none"
    /\ (Resolved /\ pio_env \notin Keys) =>
          /\ app_sources = <<"r", "x", "/", "m", "a", "i", "n", ".", "c">>
          /\ message = "Building RX firmware"
    /\ (pc = "done" /\ pio_env \notin Keys) =>
          /\ file = Stored(RxManifest)
          /\ log = <<"Building RX firmware">>

C2_Witness ==
    /\ pc = "done"
    /\ pio_env = <<>>
    /\ prev.completed
    /\ prev.env = <<"a", "n", "y", "t", "h", "i", "n", "g", "-", "e", "l", "s", "e">>
    /\ prev.data = RxManifest
    /\ file = Stored(RxManifest)

\* C3: after a completed build the manifest holds exactly one
\* idf_component_register directive with exactly one quoted source, and that
\* source is textually the path resolved for the build's environment name.
C3_ExactlyOneRegisteredSource ==
    pc = "done" =>
        /\ Cardinality(Occurrences(DIRECTIVE_NAME, file.data)) = 1
        /\ Cardinality(Opening(file.data)) = 1
        /\ Cardinality(Quotes(file.data)) = 2
        /\ RegisteredSources(file.data) = {app_sources}
        /\ app_sources \in {TX_MAIN, COMBO_MAIN, RX_MAIN}

C3_Witness ==
    /\ pc = "done"
    /\ pio_env = KEY_TX
    /\ RegisteredSources(file.data) = {TX_MAIN}
    /\ prev.completed
    /\ RegisteredSources(prev.data) = {COMBO_MAIN}

\* C4: a build that completes right after a completed build with the same
\* environment name leaves the manifest identical, character for character,
\* to what the first build left, and prints the same message.
C4_Idempotent ==
    (pc = "done" /\ prev.completed /\ prev.env = pio_env) =>
        /\ file.data = prev.data
        /\ log = prev.log

C4_Witness ==
    /\ pc = "done"
    /\ prev.completed
    /\ prev.env = pio_env
    /\ pio_env = KEY_TX
    /\ file.data = TxManifest

\* C5: whatever the manifest held before (absent, empty, hand-written, left
\* by a build of another variant, or cut short by a failed write), after a
\* completed build it is the manifest of the current environment name and
\* nothing else.
C5_OverwrittenUnconditionally ==
    pc = "done" => file = Stored(ManifestFor(pio_env))

C5_Witness ==
    /\ pc = "done"
    /\ prev.completed
    /\ prev.data = ComboManifest
    /\ pio_env = <<"r", "x">>
    /\ file = Stored(RxManifest)

\* C6: when opening or writing the manifest fails the hook ends in failure:
\* an exception never coexists with any other position of the script, and a
\* build that completes has raised nothing and has written the whole content.
C6_WriteFailureAborts ==
    /\ raised # "none" => pc = "failed"
    /\ pc = "done" => (raised = "none" /\ file = Stored(cmake_content))

C6_Witness ==
    /\ pc = "failed"
    /\ raised = "OSError"
    /\ file = Stored(<<>>)
    /\ log = <<message>>

\* C7: the content is a newline, the line
\* idf_component_register(SRCS "<source_path>"), and a newline, with
\* <source_path> one of tx/main.c, rx/main.c, combo/main.c.
C7_ExactTemplate ==
    /\ Formatted =>
          /\ cmake_content \in {TxManifest, ComboManifest, RxManifest}
          /\ Head(cmake_content) = "\n"
          /\ cmake_content[Len(cmake_content)] = "\n"
          /\ Quotes(cmake_content) = {30, Len(cmake_content) - 2}
          /\ SubSeq(cmake_content, 31, Len(cmake_content) - 3) = app_sources
    /\ pc = "done" => file.data = cmake_content

C7_Witness ==
    /\ pc = "done"
    /\ app_sources = RX_MAIN
    /\ file.data = RxManifest
    /\ Len(file.data) = 42

\* C8: the steps of a build run in the order read, resolve, print, write.
\* The message is printed exactly once, after the variant is resolved and
\* before the manifest is opened, so that every change of the file and every
\* exception finds the message already in the log.
C8_StepOrder ==
    /\ [](/\ pc \in {"start", "dispatch", "print"} => log = <<>>
          /\ pc \in {"format", "open", "write", "done", "failed"} => log = <<message>>
          /\ raised # "none" => log = <<message>>)
    /\ [][/\ pio_env' # pio_env => (pc = "start" \/ pc' = "start")
          /\ (app_sources' # app_sources /\ pc' # "start") =>
                (pc = "dispatch" /\ pio_env' = pio_env /\ log = <<>>)
          /\ log' # log =>
                \/ pc' = "start"
                \/ /\ pc = "print"
                   /\ message = Resolve(pio_env).message
                   /\ log' = <<message>>
                   /\ file' = file
          /\ file' # file => (log = <<message>> /\ log' = log /\ Len(log) = 1)
          /\ raised' = "OSError" => (log = <<message>> /\ log' = log)]_vars

C8_Witness ==
    /\ pc = "failed"
    /\ raised = "OSError"
    /\ log = <<"Building TX firmware">>
    /\ file = Absent

\* C9: the printed message and the written source path always come from one
\* and the same entry of the table.
VariantTable ==
    { <<"Building TX firmware", <<"t", "x", "/", "m", "a", "i", "n", ".", "c">> >>,
      <<"Building COMBO firmware", <<"c", "o", "m", "b", "o", "/", "m", "a", "i", "n", ".", "c">> >>,
      <<"Building RX firmware", <<"r", "x", "/", "m", "a", "i", "n", ".", "c">> >> }

C9_OneEntryPerRun ==
    /\ Resolved => <<message, app_sources>> \in VariantTable
    /\ pc = "done" =>
          /\ Len(log) = 1
          /\ \A src \in RegisteredSources(file.data) : <<log[1], src>> \in VariantTable
          /\ RegisteredSources(file.data) # {}

C9_Witness ==
    /\ pc = "done"
    /\ log = <<"Building COMBO firmware">>
    /\ RegisteredSources(file.data) = {COMBO_MAIN}
    /\ prev.completed
    /\ prev.log = <<"Building TX firmware">>

\* C10: keys match by exact equality: the tx variant is chosen for "tx" and
\* nothing else, the combo variant for "combo" and nothing else, and a name
\* that is a near miss of a key resolves to the receiver variant.
C10_ExactKeyMatch ==
    Resolved =>
        /\ app_sources = TX_MAIN <=> pio_env = <<"t", "x">>
        /\ message = TX_MESSAGE <=> pio_env = <<"t", "x">>
        /\ app_sources = COMBO_MAIN <=> pio_env = <<"c", "o", "m", "b", "o">>
        /\ message = COMBO_MESSAGE <=> pio_env = <<"c", "o", "m", "b", "o">>
        /\ NearMiss(pio_env) => (app_sources = RX_MAIN /\ message = RX_MESSAGE)

C10_Witness ==
    /\ pc = "done"
    /\ pio_env = <<"t", "x", " ">>
    /\ NearMiss(pio_env)
    /\ prev.completed
    /\ prev.env = <<"T", "X">>
    /\ NearMiss(prev.env)
    /\ prev.data = RxManifest
    /\ file.data = RxManifest

====
